---- MODULE Spec2Model ----
(***************************************************************************)
(* The top-level lexer of boa (src/boa/src/syntax/lexer/mod.rs): the       *)
(* whitespace-skipping loop, the dispatch on the first significant         *)
(* character, the comment filter and the goal symbol.  Characters are      *)
(* Unicode code points.  The Cursor and the sub-tokenizers live in         *)
(* sibling modules (cursor.rs, comment.rs, ...) and follow spec.md         *)
(* sections 3, 4.1 and 4.3.                                                 *)
(***************************************************************************)
EXTENDS Integers, Sequences, FiniteSets, TLC

VARIABLES
    input,        \* the characters the reader supplies, in order
    cursor,       \* Lexer.cursor: [idx, line, col], idx = characters consumed
    goal_symbol,  \* Lexer.goal_symbol
    goalSet,      \* history: the consumer has called _set_goal
    last,         \* history: what the latest token request returned
    yielded,      \* history: the tokens and syntax errors returned, in order
    ioSeen,       \* history: some request has returned an input-source error
    strict_wanted \* the strict mode the owner of the Lexer asks for

vars == <<input, cursor, goal_symbol, goalSet, last, yielded, ioSeen,
          strict_wanted>>

----------------------------------------------------------------------------
(* Bounds *)

MaxLen == 4
MaxLenLines == 3
MaxLenOneChar == 2
MaxLenWs == 2
MaxLenNumbers == 2
MaxLenChars == 1

----------------------------------------------------------------------------
(* Characters *)

Slash == 47
Star == 42
Backtick == 96
Backslash == 92
Dot == 46
Dollar == 36
Underscore == 95

LineTerminators == {13, 10, 8232, 8233}

Quotes == {34, 39}

SinglePunctuators == {59, 58, 40, 41, 44, 123, 125, 91, 93, 63}

OperatorChars == {42, 43, 45, 37, 124, 38, 94, 61, 60, 62, 33, 126}

InputElement == {"Div", "_RegExp", "_RegExpOrTemplateTail", "_TemplateTail"}

RegexGoals == {"_RegExp", "_RegExpOrTemplateTail"}

\* variant: char::is_whitespace of Rust, the White_Space property
is_whitespace_rust(ch) ==
    ch \in {32, 9, 10, 11, 12, 13, 133, 160, 5760, 8232, 8233, 8239, 8287, 12288}
    \/ ch \in 8192..8202

\* variant: the ASCII whitespace characters alone
is_whitespace_ascii(ch) ==
    ch \in {32, 9, 11, 12}

\* variant: the range of U+2000 runs one character too far, to U+200B
is_whitespace_wide(ch) ==
    ch \in {32, 9, 11, 12, 160, 65279, 5760, 8239, 8287, 12288}
    \/ ch \in 8192..8203

\* Lexer::is_whitespace
is_whitespace(ch) ==
    ch \in {32, 9, 11, 12, 160, 65279, 5760, 8239, 8287, 12288}
    \/ ch \in 8192..8202

is_digit(ch) == ch \in 48..57

\* char::is_alphabetic, on the code points below U+02C2
is_alphabetic(ch) ==
    \/ ch \in 65..90
    \/ ch \in 97..122
    \/ ch \in {170, 181, 186}
    \/ ch \in 192..214
    \/ ch \in 216..246
    \/ ch \in 248..705

\* variant: the two block punctuators are exchanged
PunctuatorOfSwapped(ch) ==
    CASE ch = 59 -> "Semicolon"
      [] ch = 58 -> "Colon"
      [] ch = 40 -> "OpenParen"
      [] ch = 41 -> "CloseParen"
      [] ch = 44 -> "Comma"
      [] ch = 123 -> "CloseBlock"
      [] ch = 125 -> "OpenBlock"
      [] ch = 91 -> "OpenBracket"
      [] ch = 93 -> "CloseBracket"
      [] ch = 63 -> "Question"
      [] OTHER -> "-"

PunctuatorOf(ch) ==
    CASE ch = 59 -> "Semicolon"
      [] ch = 58 -> "Colon"
      [] ch = 40 -> "OpenParen"
      [] ch = 41 -> "CloseParen"
      [] ch = 44 -> "Comma"
      [] ch = 123 -> "OpenBlock"
      [] ch = 125 -> "CloseBlock"
      [] ch = 91 -> "OpenBracket"
      [] ch = 93 -> "CloseBracket"
      [] ch = 63 -> "Question"
      [] OTHER -> "-"

DefaultGoal == "Div"

----------------------------------------------------------------------------
(* Cursor *)

NewCursor == [idx |-> 0, line |-> 1, col |-> 1]

Pos(cur) == [line |-> cur.line, col |-> cur.col]

Advance(cur, ch) ==
    IF ch \in LineTerminators
    THEN [idx |-> cur.idx + 1, line |-> cur.line + 1, col |-> 1]
    ELSE [idx |-> cur.idx + 1, line |-> cur.line, col |-> cur.col + 1]

\* Cursor::next: f is the index of the character whose read fails (0: none)
CursorNext(cur, f) ==
    IF cur.idx >= Len(input)
    THEN [out |-> "none", chr |-> 0, cur |-> cur]
    ELSE IF cur.idx + 1 = f
    THEN [out |-> "err", chr |-> 0, cur |-> cur]
    ELSE [out |-> "chr", chr |-> input[cur.idx + 1],
          cur |-> Advance(cur, input[cur.idx + 1])]

RECURSIVE AdvanceTo(_, _)
AdvanceTo(cur, j) ==
    IF cur.idx >= j \/ cur.idx >= Len(input) THEN cur
    ELSE AdvanceTo(Advance(cur, input[cur.idx + 1]), j)

----------------------------------------------------------------------------
(* Tokens and errors *)

NoErr == [what |-> "-", ch |-> 0, line |-> 0, col |-> 0]

\* variant: the Span ends where it starts
TokenNewAtStart(tk, punct, start, cur) ==
    [res |-> "token", tk |-> tk, punct |-> punct, start |-> start,
     end |-> start, cur |-> cur,
     err |-> [what |-> "-", ch |-> 0, line |-> 0, col |-> 0]]

\* Token::new(kind, Span::new(start, end)), as the Ok of a Result
TokenNew(tk, punct, start, cur) ==
    [res |-> "token", tk |-> tk, punct |-> punct, start |-> start,
     end |-> Pos(cur), cur |-> cur, err |-> NoErr]

\* Error::syntax(details), as the Err of a Result
ErrorSyntax(what, ch, pos, start, cur) ==
    [res |-> "syntax", tk |-> "-", punct |-> "-", start |-> start,
     end |-> Pos(cur), cur |-> cur,
     err |-> [what |-> what, ch |-> ch, line |-> pos.line, col |-> pos.col]]

\* an io::Error of the reader, converted by Error::from
ErrorIO(start, cur) ==
    [res |-> "io", tk |-> "-", punct |-> "-", start |-> start,
     end |-> Pos(cur), cur |-> cur,
     err |-> [what |-> "read failure", ch |-> 0, line |-> 0, col |-> 0]]

----------------------------------------------------------------------------
(* Sub-tokenizers: each is handed the cursor just past the triggering      *)
(* character and the start position, consumes n further characters and    *)
(* asks the cursor for r >= n further characters (peeks included).         *)

Min(a, b) == IF a <= b THEN a ELSE b

LeastOf(S) == CHOOSE x \in S : \A y \in S : x <= y

IsIdentifierPart(ch) ==
    is_alphabetic(ch) \/ is_digit(ch) \/ ch = Dollar \/ ch = Underscore

IsNumberPart(ch) == is_digit(ch) \/ ch = Dot

InClass(class, ch) ==
    CASE class = "identifier part" -> IsIdentifierPart(ch)
      [] class = "number part" -> IsNumberPart(ch)
      [] class = "regex flag" -> is_alphabetic(ch)
      [] class = "comment line" -> ch \notin LineTerminators

\* the end of the maximal run of characters of a class after index i
RunEnd(i, class) ==
    CHOOSE j \in i..Len(input) :
        /\ \A k \in (i + 1)..j : InClass(class, input[k])
        /\ (j = Len(input) \/ ~InClass(class, input[j + 1]))

Finish(cur, start, f, n, r, tk, punct, what) ==
    IF f > cur.idx /\ f <= cur.idx + r
    THEN ErrorIO(start, AdvanceTo(cur, Min(f - 1, cur.idx + n)))
    ELSE IF what # "-"
    THEN ErrorSyntax(what, 0, start, start, AdvanceTo(cur, cur.idx + n))
    ELSE TokenNew(tk, punct, start, AdvanceTo(cur, cur.idx + n))

CommentLex(cur, start, f) ==
    LET i == cur.idx
        L == Len(input)
    IN  IF i >= L
        THEN Finish(cur, start, f, 0, 0, "Punctuator", "Div", "-")
        ELSE IF input[i + 1] = Slash
        THEN LET j == RunEnd(i + 1, "comment line")
             IN  Finish(cur, start, f, j - i, IF j < L THEN j - i + 1 ELSE j - i,
                        "Comment", "-", "-")
        ELSE IF input[i + 1] = Star
        THEN LET closers == {j \in (i + 2)..(L - 1) :
                                input[j] = Star /\ input[j + 1] = Slash}
             IN  IF closers = {}
                 THEN Finish(cur, start, f, L - i, L - i, "-", "-",
                             "unterminated multiline comment")
                 ELSE Finish(cur, start, f, LeastOf(closers) + 1 - i,
                             LeastOf(closers) + 1 - i, "Comment", "-", "-")
        ELSE Finish(cur, start, f, 0, 1, "Punctuator", "Div", "-")

\* a few of the reserved words: if, do, in
ReservedWords == {<<105, 102>>, <<100, 111>>, <<105, 110>>}

IdentifierLex(init, cur, start, f) ==
    LET i == cur.idx
        j == RunEnd(i, "identifier part")
        lexeme == <<init>> \o SubSeq(input, i + 1, j)
    IN  Finish(cur, start, f, j - i, IF j < Len(input) THEN j - i + 1 ELSE j - i,
               IF lexeme \in ReservedWords THEN "Keyword" ELSE "Identifier",
               "-", "-")

NumberLex(init, strict_mode, cur, start, f) ==
    LET i == cur.idx
        j == RunEnd(i, "number part")
        dots == {k \in (i + 1)..j : input[k] = Dot}
    IN  Finish(cur, start, f, j - i, IF j < Len(input) THEN j - i + 1 ELSE j - i,
               "NumericLiteral", "-",
               IF Cardinality(dots) > 1 THEN "malformed numeric literal" ELSE "-")

\* the index of the first unescaped terminator after index j, or 0
RECURSIVE Closing(_, _)
Closing(j, terminator) ==
    IF j + 1 > Len(input) THEN 0
    ELSE IF input[j + 1] = terminator THEN j + 1
    ELSE IF input[j + 1] = Backslash THEN Closing(j + 2, terminator)
    ELSE Closing(j + 1, terminator)

DelimitedLex(terminator, tk, what, cur, start, f) ==
    LET i == cur.idx
        L == Len(input)
        c == Closing(i, terminator)
    IN  IF c = 0
        THEN Finish(cur, start, f, L - i, L - i, "-", "-", what)
        ELSE Finish(cur, start, f, c - i, c - i, tk, "-", "-")

StringLex(terminator, cur, start, f) ==
    DelimitedLex(terminator, "StringLiteral", "unterminated string literal",
                 cur, start, f)

TemplateLex(cur, start, f) ==
    DelimitedLex(Backtick, "TemplateLiteral", "unterminated template literal",
                 cur, start, f)

RegexLex(cur, start, f) ==
    LET i == cur.idx
        L == Len(input)
        c == Closing(i, Slash)
    IN  IF c = 0
        THEN Finish(cur, start, f, L - i, L - i, "-", "-",
                    "unterminated regular expression literal")
        ELSE LET j == RunEnd(c, "regex flag")
             IN  Finish(cur, start, f, j - i, IF j < L THEN j - i + 1 ELSE j - i,
                        "RegularExpressionLiteral", "-", "-")

SpreadLex(cur, start, f) ==
    LET i == cur.idx
        L == Len(input)
    IN  IF i + 2 <= L /\ input[i + 1] = Dot /\ input[i + 2] = Dot
        THEN Finish(cur, start, f, 2, 2, "Punctuator", "Spread", "-")
        ELSE Finish(cur, start, f, 0,
                    IF i + 1 <= L /\ input[i + 1] = Dot THEN Min(2, L - i)
                    ELSE Min(1, L - i),
                    "Punctuator", "Dot", "-")

OperatorTable ==
    { [lex |-> <<42>>, name |-> "Mul"],
      [lex |-> <<42, 42>>, name |-> "Exp"],
      [lex |-> <<42, 61>>, name |-> "AssignMul"],
      [lex |-> <<42, 42, 61>>, name |-> "AssignPow"],
      [lex |-> <<43>>, name |-> "Add"],
      [lex |-> <<43, 43>>, name |-> "Inc"],
      [lex |-> <<43, 61>>, name |-> "AssignAdd"],
      [lex |-> <<45>>, name |-> "Sub"],
      [lex |-> <<45, 45>>, name |-> "Dec"],
      [lex |-> <<45, 61>>, name |-> "AssignSub"],
      [lex |-> <<37>>, name |-> "Mod"],
      [lex |-> <<37, 61>>, name |-> "AssignMod"],
      [lex |-> <<124>>, name |-> "Or"],
      [lex |-> <<124, 124>>, name |-> "BoolOr"],
      [lex |-> <<124, 61>>, name |-> "AssignOr"],
      [lex |-> <<38>>, name |-> "And"],
      [lex |-> <<38, 38>>, name |-> "BoolAnd"],
      [lex |-> <<38, 61>>, name |-> "AssignAnd"],
      [lex |-> <<94>>, name |-> "Xor"],
      [lex |-> <<94, 61>>, name |-> "AssignXor"],
      [lex |-> <<61>>, name |-> "Assign"],
      [lex |-> <<61, 61>>, name |-> "Eq"],
      [lex |-> <<61, 61, 61>>, name |-> "StrictEq"],
      [lex |-> <<61, 62>>, name |-> "Arrow"],
      [lex |-> <<60>>, name |-> "LessThan"],
      [lex |-> <<60, 60>>, name |-> "LeftSh"],
      [lex |-> <<60, 61>>, name |-> "LessThanOrEq"],
      [lex |-> <<60, 60, 61>>, name |-> "AssignLeftSh"],
      [lex |-> <<62>>, name |-> "GreaterThan"],
      [lex |-> <<62, 62>>, name |-> "RightSh"],
      [lex |-> <<62, 61>>, name |-> "GreaterThanOrEq"],
      [lex |-> <<62, 62, 62>>, name |-> "URightSh"],
      [lex |-> <<62, 62, 61>>, name |-> "AssignRightSh"],
      [lex |-> <<62, 62, 62, 61>>, name |-> "AssignURightSh"],
      [lex |-> <<33>>, name |-> "Not"],
      [lex |-> <<33, 61>>, name |-> "NotEq"],
      [lex |-> <<33, 61, 61>>, name |-> "StrictNotEq"],
      [lex |-> <<126>>, name |-> "Neg"] }

OperatorLexemes == {o.lex : o \in OperatorTable}

OperatorName(lexeme) == (CHOOSE o \in OperatorTable : o.lex = lexeme).name

OperatorLex(init, cur, start, f) ==
    LET i == cur.idx
        L == Len(input)
        Lexeme(k) == <<init>> \o SubSeq(input, i + 1, i + k)
        n == CHOOSE k \in 0..Min(3, L - i) :
                 /\ \A m \in 0..k : Lexeme(m) \in OperatorLexemes
                 /\ (k = Min(3, L - i) \/ Lexeme(k + 1) \notin OperatorLexemes)
    IN  Finish(cur, start, f, n, IF n < Min(3, L - i) THEN n + 1 ELSE n,
               "Punctuator", OperatorName(Lexeme(n)), "-")

----------------------------------------------------------------------------
(* Lexer *)

strict_mode == FALSE

\* variant: the start position is taken once, before the loop
RECURSIVE SkipKeepingStart(_, _, _)
SkipKeepingStart(cur, f, start) ==
    LET r == CursorNext(cur, f)
    IN  IF r.out = "none"
        THEN [out |-> "none", cur |-> r.cur, start |-> start, chr |-> 0]
        ELSE IF r.out = "err"
        THEN [out |-> "err", cur |-> r.cur, start |-> start, chr |-> 0]
        ELSE IF ~is_whitespace(r.chr)
        THEN [out |-> "chr", cur |-> r.cur, start |-> start, chr |-> r.chr]
        ELSE SkipKeepingStart(r.cur, f, start)

SkipWhitespaceStale(cur, f) == SkipKeepingStart(cur, f, Pos(cur))

\* variant: the first significant character is peeked at, not consumed
SkipWhitespacePeek(cur, f) ==
    LET r == SkipKeepingStart(cur, f, Pos(cur))
    IN  IF r.out = "chr"
        THEN LET before == AdvanceTo(cur, r.cur.idx - 1)
             IN  [out |-> "chr", cur |-> before, start |-> Pos(before),
                  chr |-> r.chr]
        ELSE r

\* variant: a failed read is read again instead of being returned
RECURSIVE SkipWhitespaceRetry(_, _)
SkipWhitespaceRetry(cur, f) ==
    LET start == Pos(cur)
        r == CursorNext(cur, f)
    IN  IF r.out = "none"
        THEN [out |-> "none", cur |-> r.cur, start |-> start, chr |-> 0]
        ELSE IF r.out = "err"
        THEN SkipWhitespaceRetry(cur, 0)
        ELSE IF ~is_whitespace(r.chr)
        THEN [out |-> "chr", cur |-> r.cur, start |-> start, chr |-> r.chr]
        ELSE SkipWhitespaceRetry(r.cur, f)

\* variant: end-of-input is reported as a failed read
SkipWhitespaceNoEnd(cur, f) ==
    LET r == SkipKeepingStart(cur, f, Pos(cur))
    IN  IF r.out = "none" THEN [r EXCEPT !.out = "err"]
        ELSE [r EXCEPT !.start = Pos(AdvanceTo(cur, r.cur.idx - 1))]

\* the loop of Lexer::next that finds the first significant character
RECURSIVE SkipWhitespace(_, _)
SkipWhitespace(cur, f) ==
    LET start == Pos(cur)
        r == CursorNext(cur, f)
    IN  IF r.out = "none"
        THEN [out |-> "none", cur |-> r.cur, start |-> start, chr |-> 0]
        ELSE IF r.out = "err"
        THEN [out |-> "err", cur |-> r.cur, start |-> start, chr |-> 0]
        ELSE IF ~is_whitespace(r.chr)
        THEN [out |-> "chr", cur |-> r.cur, start |-> start, chr |-> r.chr]
        ELSE SkipWhitespace(r.cur, f)

\* variant: the identifier arm tests is_alphanumeric, ahead of the digit arm
HandlerAlphanumeric(next_chr) ==
    CASE next_chr \in LineTerminators -> "line_terminator"
      [] next_chr \in Quotes -> "string"
      [] next_chr = Backtick -> "template"
      [] is_alphabetic(next_chr) \/ is_digit(next_chr)
           \/ next_chr = Dollar \/ next_chr = Underscore -> "identifier"
      [] next_chr = Dot -> "spread"
      [] next_chr \in SinglePunctuators -> "punctuator"
      [] next_chr = Slash -> "comment"
      [] next_chr \in OperatorChars -> "operator"
      [] OTHER -> "unexpected"

\* variant: / always starts a regular expression literal
HandlerRegex(next_chr) ==
    CASE next_chr \in LineTerminators -> "line_terminator"
      [] next_chr \in Quotes -> "string"
      [] next_chr = Backtick -> "template"
      [] is_digit(next_chr) -> "number"
      [] is_alphabetic(next_chr) \/ next_chr = Dollar \/ next_chr = Underscore
            -> "identifier"
      [] next_chr = Dot -> "spread"
      [] next_chr \in SinglePunctuators -> "punctuator"
      [] next_chr = Slash -> "regex"
      [] next_chr \in OperatorChars -> "operator"
      [] OTHER -> "unexpected"

\* the arm of the match in Lexer::next that next_chr selects
Handler(next_chr) ==
    CASE next_chr \in LineTerminators -> "line_terminator"
      [] next_chr \in Quotes -> "string"
      [] next_chr = Backtick -> "template"
      [] is_digit(next_chr) -> "number"
      [] is_alphabetic(next_chr) \/ next_chr = Dollar \/ next_chr = Underscore
            -> "identifier"
      [] next_chr = Dot -> "spread"
      [] next_chr \in SinglePunctuators -> "punctuator"
      [] next_chr = Slash -> "comment"
      [] next_chr \in OperatorChars -> "operator"
      [] OTHER -> "unexpected"

\* variant: the error reports the position after the character
UnexpectedCharAfter(next_chr, cur, start) ==
    ErrorSyntax("Unexpected", next_chr, Pos(cur), start, cur)

\* variant: the error skips to the end of the input to resynchronize
UnexpectedCharResync(next_chr, cur, start) ==
    ErrorSyntax("Unexpected", next_chr, start, start,
                AdvanceTo(cur, Len(input)))

\* the fallback arm: format!("Unexpected '{}' at line {}, column {}", ...)
UnexpectedChar(next_chr, cur, start) ==
    ErrorSyntax("Unexpected", next_chr, start, start, cur)

\* no character is handed to the arm's constructor
NoArg == 0 - 1

\* the result t of the arm h, with the character and the strict flag that
\* the arm hands to its sub-tokenizer's constructor
Arm(h, arg, strict, t) == t @@ [handler |-> h, arg |-> arg, strict |-> strict]

Dispatch(next_chr, cur, start, f) ==
    LET h == Handler(next_chr)
    IN  CASE h = "line_terminator" ->
                Arm(h, NoArg, FALSE, TokenNew("LineTerminator", "-", start, cur))
          [] h = "string" ->
                Arm(h, next_chr, FALSE, StringLex(next_chr, cur, start, f))
          [] h = "template" ->
                Arm(h, NoArg, FALSE, TemplateLex(cur, start, f))
          [] h = "number" ->
                Arm(h, next_chr, strict_mode,
                    NumberLex(next_chr, strict_mode, cur, start, f))
          [] h = "identifier" ->
                Arm(h, next_chr, FALSE, IdentifierLex(next_chr, cur, start, f))
          [] h = "spread" ->
                Arm(h, NoArg, FALSE, SpreadLex(cur, start, f))
          [] h = "punctuator" ->
                Arm(h, NoArg, FALSE,
                    TokenNew("Punctuator", PunctuatorOf(next_chr), start, cur))
          [] h = "comment" ->
                Arm(h, NoArg, FALSE, CommentLex(cur, start, f))
          [] h = "operator" ->
                Arm(h, next_chr, FALSE, OperatorLex(next_chr, cur, start, f))
          [] h = "regex" ->
                Arm(h, NoArg, FALSE, RegexLex(cur, start, f))
          [] OTHER ->
                Arm(h, NoArg, FALSE, UnexpectedChar(next_chr, cur, start))

\* variant: comments are yielded like any other token
IsDiscardedNever(t) == FALSE

\* if let Ok(t) = token { if t.kind() == &TokenKind::Comment { ... } }
IsDiscarded(t) == t.res = "token" /\ t.tk = "Comment"

\* Lexer::next; skipped counts the comments discarded so far in this request
RECURSIVE LexerNext(_, _, _)
LexerNext(cur, f, skipped) ==
    LET sk == SkipWhitespace(cur, f)
        trail(first) ==
            [scanFrom |-> cur.idx, first |-> first, skipped |-> skipped]
        none == [handler |-> "-", arg |-> NoArg, strict |-> FALSE]
    IN  IF sk.out = "none"
        THEN [res |-> "eos", tk |-> "-", punct |-> "-", start |-> sk.start,
              end |-> Pos(sk.cur), cur |-> sk.cur, err |-> NoErr]
             @@ trail(0) @@ none
        ELSE IF sk.out = "err"
        THEN ErrorIO(sk.start, sk.cur) @@ trail(0) @@ none
        ELSE LET t == Dispatch(sk.chr, sk.cur, sk.start, f)
             IN  IF IsDiscarded(t)
                 THEN LexerNext(t.cur, f, skipped + 1)
                 ELSE t @@ trail(sk.cur.idx)

----------------------------------------------------------------------------
(* The consumer's operations *)

NoResult ==
    [kind |-> "none", tk |-> "-", punct |-> "-",
     start |-> Pos(NewCursor), end |-> Pos(NewCursor), err |-> NoErr,
     from |-> 0, scanFrom |-> 0, first |-> 0, handler |-> "-", skipped |-> 0,
     arg |-> NoArg, strict |-> FALSE, srcFailed |-> FALSE, failAt |-> 0]

\* Lexer::new(reader), the reader holding up to maxlen characters of chars;
\* the owner wants one of the strict modes of wanted, and new takes none
LexerNew(chars, maxlen, wanted) ==
    /\ input \in UNION {[1..k -> chars] : k \in 0..maxlen}
    /\ strict_wanted \in wanted
    /\ yielded = <<>>
    /\ ioSeen = FALSE
    /\ cursor = NewCursor
    /\ goal_symbol = DefaultGoal
    /\ goalSet = FALSE
    /\ last = NoResult

\* one token request: Iterator::next on the Lexer; the reader may fail the
\* read of any one character f that the request reads, and delivers that
\* character when read again
Request ==
    \E f \in {0} \cup ((cursor.idx + 1)..Len(input)) :
        /\ LET r == LexerNext(cursor, f, 0)
           IN  /\ f > 0 => (r.res = "io" \/ f <= r.cur.idx)
               /\ cursor' = r.cur
               /\ last' = [kind |-> r.res, tk |-> r.tk, punct |-> r.punct,
                           start |-> r.start, end |-> r.end, err |-> r.err,
                           from |-> cursor.idx, scanFrom |-> r.scanFrom,
                           first |-> r.first, handler |-> r.handler,
                           skipped |-> r.skipped, arg |-> r.arg,
                           strict |-> r.strict,
                           srcFailed |-> f > 0, failAt |-> f]
               /\ yielded' = IF r.res \in {"token", "syntax"}
                             THEN Append(yielded, [kind |-> r.res,
                                                   start |-> r.start,
                                                   end |-> r.end])
                             ELSE yielded
               /\ ioSeen' = (ioSeen \/ r.res = "io")
        /\ UNCHANGED <<input, goal_symbol, goalSet, strict_wanted>>

\* Lexer::_set_goal(elm)
SetGoal ==
    \E elm \in InputElement :
        /\ goal_symbol' = elm
        /\ goalSet' = TRUE
        /\ UNCHANGED <<input, cursor, last, yielded, ioSeen, strict_wanted>>

Next == Request \/ SetGoal

\* space, LF, / and *: whitespace, lines, comments and operators
CoreChars == {32, 10, 47, 42}

Init == LexerNew(CoreChars, MaxLen, {FALSE})

Spec == Init /\ [][Next]_vars

\* space, the four line terminators and a letter
LineChars == {32, 13, 10, 8232, 8233, 97}

InitLines == LexerNew(LineChars, MaxLenLines, {FALSE})

SpecLines == InitLines /\ [][Next]_vars

\* space, LF, the ten single-character punctuators, and @, #, U+0085
OneCharChars == {32, 10, 64, 35, 133} \cup SinglePunctuators

InitOneChar == LexerNew(OneCharChars, MaxLenOneChar, {FALSE})

SpecOneChar == InitOneChar /\ [][Next]_vars

\* the ECMAScript whitespace characters (U+2000..U+200A by its two ends),
\* and U+0085, U+200B, LF and U+2029, which are not
WsChars == {32, 9, 11, 12, 160, 65279, 5760, 8192, 8202, 8239, 8287, 12288,
            133, 8203, 10, 8233}

InitWs == LexerNew(WsChars, MaxLenWs, {FALSE})

SpecWs == InitWs /\ [][Next]_vars

\* space, the digits 0 and 7, the dot and a letter; the owner of the Lexer
\* wants either strict mode
NumberChars == {32, 48, 55, 46, 97}

InitNumbers == LexerNew(NumberChars, MaxLenNumbers, BOOLEAN)

SpecNumbers == InitNumbers /\ [][Next]_vars

\* characters of every class of the dispatch: whitespace and its
\* look-alikes, line terminators, quotes, the backtick, digits (and the
\* non-ASCII digit U+0661), letters, $ _ ., punctuators, /, operator
\* characters, and @ # \
DispatchChars ==
    WsChars \cup LineTerminators \cup Quotes \cup {Backtick}
    \cup {48, 57, 1633} \cup {97, 90, 233, 181} \cup {Dollar, Underscore, Dot}
    \cup SinglePunctuators \cup {Slash} \cup OperatorChars \cup {64, 35, 92}

InitChars == LexerNew(DispatchChars, MaxLenChars, {FALSE})

SpecChars == InitChars /\ [][Next]_vars

----------------------------------------------------------------------------
(* What the claims measure against, computed from the input alone *)

\* the whitespace list of spec.md 4.2, step 1
EcmaWhitespace ==
    {32, 9, 11, 12, 160, 65279, 5760, 8239, 8287, 12288} \cup (8192..8202)

\* the index of the first character after index k that is not whitespace,
\* or 0 when only whitespace is left
FirstSignificant(k) ==
    LET S == {j \in (k + 1)..Len(input) : input[j] \notin EcmaWhitespace}
    IN  IF S = {} THEN 0 ELSE LeastOf(S)

\* the Position held before the character at index k is consumed
PosBefore(k) ==
    LET T == {j \in 1..(k - 1) : input[j] \in LineTerminators}
        lastT == IF T = {} THEN 0 ELSE CHOOSE j \in T : \A i \in T : i <= j
    IN  [line |-> 1 + Cardinality(T), col |-> k - lastT]

\* a request has returned, and the reader failed no read during it
Returned == last.kind # "none" /\ ~last.srcFailed

\* the first significant character of the latest request's final pass
Sig == FirstSignificant(last.scanFrom)

----------------------------------------------------------------------------
(* Claims *)

C2_LineTerminatorToken ==
    /\ [](Returned /\ Sig > 0 /\ input[Sig] \in {13, 10, 8232, 8233} =>
             /\ last.kind = "token" /\ last.tk = "LineTerminator"
             /\ last.first = Sig
             /\ last.start = PosBefore(Sig)
             /\ last.end = [line |-> last.start.line + 1, col |-> 1]
             /\ cursor.idx = Sig)
    /\ [][(/\ last.kind = "token" /\ last.tk = "LineTerminator"
           /\ last' # last
           /\ last'.kind \in {"token", "syntax"}
           /\ last'.first = last.first + 1) =>
             last'.start = [line |-> last.start.line + 1, col |-> 1]]_vars

C2_Witness ==
    /\ last.kind = "token" /\ last.tk = "Identifier"
    /\ last.from = 2 /\ last.first = 3
    /\ input[1] = 97 /\ input[2] = 8232
    /\ last.start = [line |-> 2, col |-> 1]

\* C3: the start position of every token and of every sub-tokenizer call is
\* the Position held just before the first non-whitespace character of the
\* request's final pass was consumed, so no skipped whitespace and no
\* discarded comment lies inside the Span.
C3_StartAtFirstSignificant ==
    last.first > 0 =>
        /\ Sig > 0 /\ last.first = Sig
        /\ last.start = PosBefore(Sig)
        /\ last.skipped > 0 => last.start # PosBefore(last.from + 1)

C3_Witness ==
    /\ last.kind = "token"
    /\ last.first > last.scanFrom + 1
    /\ last.start.col > 1

\* C4: when the first significant character belongs to no dispatch class,
\* the request returns a syntax Error naming that character and the line
\* and column of the Position held before the character was consumed.
NoDispatchClass(ch) ==
    /\ ch \notin EcmaWhitespace
    /\ ch \notin {13, 10, 8232, 8233}
    /\ ch \notin {34, 39, 96}
    /\ ~is_digit(ch) /\ ~is_alphabetic(ch)
    /\ ch \notin {36, 95, 46}
    /\ ch \notin {59, 58, 40, 41, 44, 123, 125, 91, 93, 63}
    /\ ch # 47
    /\ ch \notin {42, 43, 45, 37, 124, 38, 94, 61, 60, 62, 33, 126}

C4_UnexpectedCharacterError ==
    Returned /\ Sig > 0 /\ NoDispatchClass(input[Sig]) =>
        /\ last.kind = "syntax"
        /\ last.err.what = "Unexpected"
        /\ last.err.ch = input[Sig]
        /\ last.err.line = PosBefore(Sig).line
        /\ last.err.col = PosBefore(Sig).col
        /\ Len(input) = 1 => last.err.line = 1 /\ last.err.col = 1

C4_Witness ==
    /\ last.kind = "syntax" /\ last.err.what = "Unexpected"
    /\ last.err.ch = 64
    /\ last.err.line = 2 /\ last.err.col = 1

\* C5: a request that returns the error for an unrecognized character has
\* consumed the preceding whitespace and that character and nothing more;
\* the next request starts at the following character and lexes it as
\* usual: a single-character punctuator there is yielded as its token, and
\* when nothing follows the request returns end-of-sequence.
C5_ErrorEndsOnlyItsRequest ==
    /\ [](last.kind = "syntax" /\ last.err.what = "Unexpected" =>
             /\ last.first = Sig
             /\ cursor.idx = last.first)
    /\ [][(/\ last.kind = "syntax" /\ last.err.what = "Unexpected"
           /\ last' # last) =>
             /\ last'.from = last.first
             /\ (/\ ~last'.srcFailed
                 /\ last.first < Len(input)
                 /\ input[last.first + 1] \in SinglePunctuators) =>
                    /\ last'.kind = "token" /\ last'.tk = "Punctuator"
                    /\ last'.first = last.first + 1
                    /\ last'.start = PosBefore(last.first + 1)
             /\ last.first = Len(input) => last'.kind = "eos"]_vars

C5_Witness ==
    /\ last.kind = "token" /\ last.tk = "Punctuator"
    /\ last.from = 1 /\ last.first = 2
    /\ input[1] = 64

\* C6: a request returns end-of-sequence exactly when only whitespace is
\* left before the end of the input, and once a request has returned
\* end-of-sequence every later request returns it too.
C6_EndOfSequenceFinal ==
    /\ [](Returned =>
             /\ last.kind = "eos" <=> Sig = 0
             /\ last.kind = "eos" => cursor.idx = Len(input) /\ last.err = NoErr)
    /\ [][last.kind = "eos" => last'.kind = "eos"]_vars

C6_Witness ==
    /\ last.kind = "eos"
    /\ last.from = Len(input)
    /\ Len(input) > 1

\* C7: on an input made only of ECMAScript whitespace a request never yields
\* a token or a syntax error, and returns end-of-sequence unless the reader
\* failed a read.
AllWhitespace == \A i \in 1..Len(input) : input[i] \in EcmaWhitespace

C7_WhitespaceOnlyInput ==
    AllWhitespace =>
        /\ last.kind \notin {"token", "syntax"}
        /\ Returned => last.kind = "eos" /\ cursor.idx = Len(input)

C7_Witness ==
    /\ AllWhitespace
    /\ Len(input) = 2 /\ input[1] = 65279 /\ input[2] = 8202
    /\ last.kind = "eos" /\ last.from = 0

\* C8: a request whose first significant character is one of the ten
\* single-character punctuators yields the Punctuator token of the matching
\* variant, built without a sub-tokenizer, spanning exactly that character,
\* and consumes nothing after it.
PunctuatorVariant ==
    (59 :> "Semicolon") @@ (58 :> "Colon") @@ (40 :> "OpenParen")
    @@ (41 :> "CloseParen") @@ (44 :> "Comma") @@ (123 :> "OpenBlock")
    @@ (125 :> "CloseBlock") @@ (91 :> "OpenBracket")
    @@ (93 :> "CloseBracket") @@ (63 :> "Question")

C8_SingleCharacterPunctuators ==
    Returned /\ Sig > 0 /\ input[Sig] \in DOMAIN PunctuatorVariant =>
        /\ last.kind = "token" /\ last.tk = "Punctuator"
        /\ last.punct = PunctuatorVariant[input[Sig]]
        /\ last.handler = "punctuator"
        /\ last.first = Sig
        /\ last.start = PosBefore(Sig)
        /\ last.end = [line |-> last.start.line, col |-> last.start.col + 1]
        /\ cursor.idx = Sig

C8_Witness ==
    /\ last.kind = "token" /\ last.punct = "CloseBlock"
    /\ last.first = 2 /\ input[1] = 123
    /\ cursor.idx = 2

\* C9: the goal symbol held at a request decides how / is lexed: with a goal
\* that permits a regular expression, a / that opens no comment goes to the
\* regular-expression sub-tokenizer, and with the division goal it does not.
C9_GoalDecidesSlash ==
    [][(/\ last' # last
        /\ ~last'.srcFailed
        /\ last'.first > 0
        /\ input[last'.first] = Slash
        /\ (last'.first = Len(input)
            \/ input[last'.first + 1] \notin {Slash, Star})) =>
          /\ goal_symbol \in RegexGoals => last'.handler = "regex"
          /\ goal_symbol = "Div" =>
                last'.handler # "regex" /\ last'.punct = "Div"]_vars

\* C10: a new Lexer holds the division goal, the regular-expression
\* sub-tokenizer runs only in a request made under a goal that permits a
\* regular expression, and while the consumer has not set the goal no
\* request dispatches to it.
C10_RegexOnlyWhenGoalPermits ==
    /\ [](~goalSet => goal_symbol = "Div" /\ last.handler # "regex")
    /\ [][last' # last /\ last'.handler = "regex" =>
             goal_symbol \in RegexGoals]_vars

C10_Witness ==
    /\ ~goalSet
    /\ last.kind = "token"
    /\ input[last.first] = Slash
    /\ last.handler = "comment" /\ last.punct = "Div"

\* C11: in a run without errors the Spans of the yielded tokens, in order,
\* are non-empty, disjoint and increasing, and the slices of the input that
\* they select, concatenated, are the consumed input with its whitespace and
\* its comments removed: the whole input once end-of-sequence is returned.

\* the index of the character before which the cursor holds Position pos
IndexOf(pos) ==
    LET S == {k \in 1..(Len(input) + 1) : PosBefore(k) = pos}
    IN  IF S = {} THEN 0 ELSE LeastOf(S)

Slice(t) == SubSeq(input, IndexOf(t.start), IndexOf(t.end) - 1)

RECURSIVE Slices(_)
Slices(ts) == IF ts = <<>> THEN <<>> ELSE Slice(Head(ts)) \o Slices(Tail(ts))

\* input[i..hi] without whitespace, // comments and /* */ comments (of an
\* input that holds no string, template or regular expression literal)
RECURSIVE Significant(_, _)
Significant(i, hi) ==
    IF i > hi THEN <<>>
    ELSE IF input[i] \in EcmaWhitespace THEN Significant(i + 1, hi)
    ELSE IF input[i] = 47 /\ i < Len(input) /\ input[i + 1] = 47
    THEN LET E == {j \in (i + 2)..Len(input) : input[j] \in {13, 10, 8232, 8233}}
         IN  IF E = {} THEN <<>> ELSE Significant(LeastOf(E), hi)
    ELSE IF input[i] = 47 /\ i < Len(input) /\ input[i + 1] = 42
    THEN LET E == {j \in (i + 2)..(Len(input) - 1) :
                      input[j] = 42 /\ input[j + 1] = 47}
         IN  IF E = {} THEN <<>> ELSE Significant(LeastOf(E) + 2, hi)
    ELSE <<input[i]>> \o Significant(i + 1, hi)

LexedWithoutError ==
    ~ioSeen /\ \A i \in 1..Len(yielded) : yielded[i].kind = "token"

C11_SpansReconstructInput ==
    LexedWithoutError =>
        /\ \A i \in 1..Len(yielded) :
              /\ IndexOf(yielded[i].start) > 0
              /\ IndexOf(yielded[i].start) < IndexOf(yielded[i].end)
              /\ IndexOf(yielded[i].end) <= cursor.idx + 1
              /\ i > 1 => IndexOf(yielded[i - 1].end) <= IndexOf(yielded[i].start)
        /\ Slices(yielded) = Significant(1, cursor.idx)
        /\ last.kind = "eos" => Slices(yielded) = Significant(1, Len(input))

C11_Witness ==
    /\ LexedWithoutError
    /\ last.kind = "eos" /\ last.skipped > 0
    /\ Len(yielded) = 2
    /\ Len(input) = 4
    /\ Slices(yielded) = <<42, 10>>

\* C12: the strict-mode flag that a request hands to the numeric
\* sub-tokenizer is the one the Lexer was set up with, so it is true for a
\* Lexer whose owner wants strict mode.
C12_StrictModeConfigured ==
    last.handler = "number" => last.strict = strict_wanted

\* C13: the first significant character alone selects the one handler of a
\* request: line terminator token, string, template, numeric, identifier,
\* spread, direct punctuator token, comment, operator, or the syntax Error;
\* the string, numeric, identifier and operator sub-tokenizers are given that
\* character, and every handler works from the cursor just past it and from
\* the start position recorded before it.
ExpectedHandler(ch) ==
    CASE ch \in {13, 10, 8232, 8233} -> "line_terminator"
      [] ch \in {34, 39} -> "string"
      [] ch = 96 -> "template"
      [] ch \in 48..57 -> "number"
      [] is_alphabetic(ch) \/ ch \in {36, 95} -> "identifier"
      [] ch = 46 -> "spread"
      [] ch \in {59, 58, 40, 41, 44, 123, 125, 91, 93, 63} -> "punctuator"
      [] ch = 47 -> "comment"
      [] ch \in {42, 43, 45, 37, 124, 38, 94, 61, 60, 62, 33, 126} -> "operator"
      [] OTHER -> "unexpected"

C13_DispatchByFirstCharacter ==
    Returned /\ Sig > 0 =>
        LET ch == input[Sig]
            h == ExpectedHandler(ch)
        IN  /\ last.handler = h
            /\ last.arg = IF h \in {"string", "number", "identifier", "operator"}
                          THEN ch ELSE 0 - 1
            /\ last.first = Sig
            /\ last.start = PosBefore(Sig)
            /\ h = "line_terminator" =>
                  last.kind = "token" /\ last.tk = "LineTerminator"
            /\ h = "punctuator" => last.kind = "token" /\ last.tk = "Punctuator"
            /\ h \in {"line_terminator", "punctuator", "unexpected"} =>
                  cursor.idx = Sig
            /\ h = "unexpected" <=>
                  (last.kind = "syntax" /\ last.err.what = "Unexpected")

C13_Witness ==
    /\ Returned
    /\ Len(input) = 1 /\ input[1] = 233
    /\ last.handler = "identifier" /\ last.arg = 233
    /\ last.kind = "token" /\ last.tk = "Identifier"

\* C14: when the reader fails a read while a request is skipping whitespace
\* or reading its first significant character, the request returns the
\* input-source Error: no token, no end-of-sequence, no sub-tokenizer, and
\* the cursor stays before the character whose read failed.
C14_ReadFailureReturned ==
    (/\ last.srcFailed
     /\ \A j \in (last.scanFrom + 1)..(last.failAt - 1) :
           input[j] \in EcmaWhitespace) =>
        /\ last.kind = "io"
        /\ last.err.what = "read failure"
        /\ last.handler = "-" /\ last.first = 0
        /\ cursor.idx = last.failAt - 1
        /\ ioSeen

C14_Witness ==
    /\ last.srcFailed /\ last.kind = "io"
    /\ last.failAt = 2
    /\ input[1] = 32 /\ input[2] = 97
    /\ cursor.idx = 1

\* C15: the skipping loop discards exactly the characters U+0020, U+0009,
\* U+000B, U+000C, U+00A0, U+FEFF, U+1680, U+2000..U+200A, U+202F, U+205F
\* and U+3000: the first character outside this list, a line terminator or
\* U+0085 included, ends the loop and is the one the request classifies.
C15_WhitespaceSet ==
    Returned =>
        /\ Sig = 0 => last.kind = "eos" /\ last.first = 0
        /\ Sig > 0 =>
              /\ last.first = Sig
              /\ last.handler = ExpectedHandler(input[Sig])
              /\ last.kind \in {"token", "syntax"}

C15_Witness ==
    /\ Returned
    /\ Len(input) = 2 /\ input[1] = 8202 /\ input[2] = 133
    /\ last.from = 0 /\ last.first = 2
    /\ last.kind = "syntax" /\ last.err.ch = 133

\* C16: a request made in any reachable state returns, whichever read fails,
\* after at most one nested call for every two characters left; one that
\* returns a token or a syntax Error has moved the cursor forward by at least
\* one character, and past every comment it discarded (one nested call, and
\* at least two characters, for each); so the tokens and syntax errors
\* returned never outnumber the characters consumed, and no two of them
\* start at the same character.
C16_RequestsMakeProgress ==
    /\ [](/\ \A f \in {0} \cup ((cursor.idx + 1)..Len(input)) :
                /\ LexerNext(cursor, f, 0).res \in {"token", "syntax", "eos", "io"}
                /\ 2 * LexerNext(cursor, f, 0).skipped <= Len(input) - cursor.idx
          /\ Len(yielded) <= cursor.idx
          /\ cursor.idx <= Len(input)
          /\ \A i, j \in 1..Len(yielded) :
                i < j => IndexOf(yielded[i].start) < IndexOf(yielded[j].start))
    /\ [][/\ cursor'.idx >= cursor.idx
          /\ last' # last => cursor'.idx >= cursor.idx + 2 * last'.skipped
          /\ yielded' # yielded =>
                /\ last'.kind \in {"token", "syntax"}
                /\ cursor'.idx >= cursor.idx + 1 + 2 * last'.skipped
                /\ last'.first > cursor.idx
                /\ cursor'.idx >= last'.first]_vars

C16_Witness ==
    /\ Len(yielded) = 2
    /\ last.kind = "token" /\ last.skipped = 1
    /\ last.from = 1 /\ cursor.idx = 4
    /\ ~ioSeen

====
